---- MODULE Spec2Model ----
(***************************************************************************)
(* The per-request pipeline of the lars router: the dispatcher serveHTTP   *)
(* (src/lars.go), the pooled execution context Ctx and its continuation    *)
(* primitive Next, its key/value store (the embedded context.Context) and  *)
(* its form helpers (src/context.go).                                      *)
(*                                                                         *)
(* Go indexes c.handlers from 0; a TLA+ sequence is indexed from 1, so the *)
(* handler at Go index i is fns[i + 1] and is called handler number i + 1. *)
(***************************************************************************)
EXTENDS Integers, Sequences, FiniteSets

\* ------------------------------------------------------------------ bounds
NumWorkers == 2       \* goroutines serving requests at the same time
MaxCtx == 2           \* contexts pool.New may create
MaxRequests == 3      \* requests dispatched in one run
MaxChain == 3         \* handlers in a resolved chain
MaxNextCalls == 2     \* Next calls one handler invocation makes
MaxOps == 2           \* store and form calls the handlers of one request make
MostParams == 1       \* LARS.mostParams: most parameters of any route

Workers == 1..NumWorkers
CtxIds == 1..MaxCtx

\* ------------------------------------------------------------- value space
Nil == "nil"                          \* Go's nil interface value
Keys == {"k1", "k2"}                  \* keys handlers store under
Values == {Nil, "", "v1"}             \* nil, the empty string, a plain value
Parents == {"background", "current", "self"}
ParamNames == <<"id", "ok", "page", "q">>

VARIABLES
    serving,    \* Serve has handed the router to the transport
    http404,    \* LARS.http404
    pool,       \* LARS.pool: the contexts put back and not handed out since
    created,    \* contexts pool.New has made: 1..created
    ctx,        \* the fields of each Ctx
    requests,   \* requests dispatched so far
    crashed,    \* the process died of a fatal error
    pc,         \* each goroutine's place in serveHTTP
    held,       \* serveHTTP's local c (0: none)
    stack,      \* the handlers running, outermost first, by number
    trace,      \* history: the handlers entered and exited, in order
    calls,      \* history: Next calls made by each handler of the request
    ops,        \* history: store and form calls made in the request
    resolved,   \* history: length of the chain Find resolved (-1: none yet)
    outcome,    \* history: how the last request ended
    prior       \* history: the context as pool.Get returned it, until Find

vars == <<serving, http404, pool, created, ctx, requests, crashed,
          pc, held, stack, trace, calls, ops, resolved, outcome, prior>>

\* ------------------------------------------------------------------ chains
\* HandlersChain: a nil slice and an empty slice index alike and differ only
\* in the comparison with nil.
NilChain == [isNil |-> TRUE, fns |-> <<>>]

Chain(n) == [isNil |-> FALSE, fns |-> [i \in 1..n |-> i]]

\* ------------------------------------------------- the embedded Context
\* context.Context as the chain the With* constructors build: the layers
\* added, oldest first, above a base. Base "self" is a chain whose parent is
\* the Ctx itself, whose Value method is its embedded Context's.
NilContext == [base |-> "nil", vals |-> <<>>]

Background == [base |-> "background", vals |-> <<>>]

\* context.WithValue(parent, key, val): one more value above the parent.
WithValueOf(cx, key, val) ==
    [cx EXCEPT !.vals = Append(@, [kind |-> "value", key |-> key, val |-> val])]

\* The context a parent's Done, Deadline and Value answer from: the Ctx's
\* methods are those of its embedded Context.
Embedded(cx, parent) == IF parent = "background" THEN Background ELSE cx

\* Context.Done(): a cancellation or deadline layer answers for itself and a
\* value layer asks its parent; Background answers nil, and a chain through
\* the Ctx itself asks the Ctx again, without end.
Done(cx) ==
    [diverges |-> /\ cx.base = "self"
                  /\ \A i \in 1..Len(cx.vals) : cx.vals[i].kind = "value"]

\* Context.Deadline(): a deadline layer answers for itself, every other
\* layer asks its parent; Background has none (ok = false).
Deadline(cx) ==
    [diverges |-> /\ cx.base = "self"
                  /\ \A i \in 1..Len(cx.vals) : cx.vals[i].kind # "deadline",
     ok |-> \E i \in 1..Len(cx.vals) : cx.vals[i].kind = "deadline"]

\* context.WithCancel(parent): one more layer, which carries no value.
WithCancelOf(cx) ==
    [cx EXCEPT !.vals = Append(@, [kind |-> "cancel", key |-> "", val |-> Nil])]

\* context.WithDeadline(parent, deadline) and WithTimeout: a layer with a
\* deadline of its own, or WithCancel(parent) when the parent's deadline
\* (had) comes sooner than the one given (sooner).
WithDeadlineOf(cx, had, sooner) ==
    IF had /\ sooner
    THEN WithCancelOf(cx)
    ELSE [cx EXCEPT !.vals = Append(@, [kind |-> "deadline", key |-> "", val |-> Nil])]

\* The parent context a handler hands to a With* method: context.Background(),
\* the context's own embedded Context, or the Ctx itself.
ParentContext(cx, parent) ==
    CASE parent = "background" -> Background
      [] parent = "current"    -> cx
      [] parent = "self"       -> [base |-> "self", vals |-> <<>>]

\* Context.Value(key): the newest value stored under key; below the values,
\* Background yields nil and a chain through the Ctx itself asks the Ctx
\* again, without end.
Value(cx, key) ==
    LET hits == {i \in 1..Len(cx.vals) :
                    cx.vals[i].kind = "value" /\ cx.vals[i].key = key}
        top  == CHOOSE i \in hits : \A j \in hits : j <= i
    IN  IF hits # {}
        THEN [diverges |-> FALSE, value |-> cx.vals[top].val]
        ELSE [diverges |-> cx.base = "self", value |-> Nil]

\* Ctx.Get
Get(cx, key) ==
    LET value == Value(cx, key).value
    IN  [value |-> value, exists |-> value # Nil]

\* ------------------------------------------------------------ the request
Param(i) == [Key |-> ParamNames[i], Value |-> "x"]

ZeroParam == [Key |-> "", Value |-> ""]

NoRequest == [multipart |-> FALSE, badQuery |-> FALSE, parsed |-> FALSE, Form |-> <<>>]

\* An incoming *http.Request: its body is multipart or not, its query
\* parses or not; Form is nil until the first parse.
Requests ==
    {[multipart |-> m, badQuery |-> b, parsed |-> FALSE, Form |-> <<>>] :
        m \in BOOLEAN, b \in BOOLEAN}

\* http.Request.ParseForm: parses once (Form == nil), reporting the query's
\* error on that call only.
HttpParseForm(r) ==
    [err |-> r.badQuery /\ ~r.parsed, req |-> [r EXCEPT !.parsed = TRUE]]

\* http.Request.ParseMultipartForm: ParseForm when Form is nil, then the
\* multipart reader, which refuses a body that is not multipart.
HttpParseMultipartForm(r) ==
    IF HttpParseForm(r).err
    THEN HttpParseForm(r)
    ELSE [err |-> ~r.multipart, req |-> HttpParseForm(r).req]

\* Form.Add of every matched parameter.
AddParams(form, params) == form \o params

\* A request with a plain body and a query that parses.
PlainRequests == {[multipart |-> FALSE, badQuery |-> FALSE, parsed |-> FALSE, Form |-> <<>>]}

\* ------------------------------------------------------------ the context
NewContext ==
    [request |-> NoRequest,
     params |-> [i \in 1..MostParams |-> ZeroParam],
     Context |-> NilContext,
     index |-> 0,
     handlers |-> NilChain,
     formParsed |-> FALSE,
     multipartFormParsed |-> FALSE]

\* The context instance Next hands to a handler (Ctx.parent): the context
\* itself.
Parent(c) == c

\* RequestStart with the store left as it was (C4's mutant).
RequestStartKeepsStore(cx, r) ==
    [cx EXCEPT !.request = r,
               !.params = <<>>,
               !.index = -1,
               !.handlers = NilChain,
               !.formParsed = FALSE,
               !.multipartFormParsed = FALSE]

\* Ctx.RequestStart
RequestStartOf(cx, r) ==
    [cx EXCEPT !.request = r,
               !.params = <<>>,
               !.Context = Background,
               !.index = -1,
               !.handlers = NilChain,
               !.formParsed = FALSE,
               !.multipartFormParsed = FALSE]

\* The outcomes of the route tree's Find: a route's chain and parameters,
\* or the not-found chain.
FindResults ==
    {[handlers |-> Chain(n), params |-> [i \in 1..p |-> Param(i)]] :
        n \in 1..MaxChain, p \in 0..MostParams}
    \cup {[handlers |-> http404, params |-> <<>>]}

\* The chains of the pool specification.
PoolFindResults ==
    {[handlers |-> Chain(1), params |-> <<>>], [handlers |-> Chain(2), params |-> <<>>]}

\* -------------------------------------------------------------------- Init
Init ==
    /\ serving = FALSE
    /\ http404 = Chain(1)
    /\ pool = {}
    /\ created = 0
    /\ ctx = [c \in CtxIds |-> NewContext]
    /\ requests = 0
    /\ crashed = FALSE
    /\ pc = [g \in Workers |-> "idle"]
    /\ held = [g \in Workers |-> 0]
    /\ stack = [g \in Workers |-> <<>>]
    /\ trace = [g \in Workers |-> <<>>]
    /\ calls = [g \in Workers |-> [i \in 1..MaxChain |-> 0]]
    /\ ops = [g \in Workers |-> 0]
    /\ resolved = [g \in Workers |-> -1]
    /\ outcome = [g \in Workers |-> "none"]
    /\ prior = [g \in Workers |-> NewContext]

\* ------------------------------------------------------------ registration
\* LARS.Register404: the not-found chain becomes the handlers given, none
\* included; before Serve or after it, between the steps of a request: a
\* lookup finds the chain stored before it or the one stored after.
Register404(n) ==
    /\ ~crashed
    /\ http404' = Chain(n)
    /\ UNCHANGED <<serving, pool, created, ctx, requests, crashed, pc, held,
                   stack, trace, calls, ops, resolved, outcome, prior>>

\* LARS.Serve: the router is handed to the transport; requests follow.
Serve ==
    /\ ~serving
    /\ serving' = TRUE
    /\ UNCHANGED <<http404, pool, created, ctx, requests, crashed, pc, held,
                   stack, trace, calls, ops, resolved, outcome, prior>>

\* ---------------------------------------------------------------- dispatch
\* A context neither in the pool nor held by a request: nothing refers to it.
Lost(c) == c \in 1..created /\ c \notin pool /\ \A g \in Workers : held[g] # c

\* A fault unwinds the goroutine: serveHTTP defers nothing, so its remaining
\* statements, pool.Put among them, do not run; the transport recovers.
Fault(g, what) ==
    /\ pc' = [pc EXCEPT ![g] = "idle"]
    /\ held' = [held EXCEPT ![g] = 0]
    /\ stack' = [stack EXCEPT ![g] = <<>>]
    /\ outcome' = [outcome EXCEPT ![g] = what]

\* A pool whose Get leaves the context it hands out in the pool (C7's mutant).
PoolGetKeeps(g, ignore) ==
    /\ serving /\ ~crashed
    /\ pc[g] = "idle"
    /\ requests < MaxRequests
    /\ \/ \E c \in pool :
            /\ held' = [held EXCEPT ![g] = c]
            /\ prior' = [prior EXCEPT ![g] = ctx[c]]
            /\ UNCHANGED <<pool, created, ctx>>
       \/ /\ pool = {} \/ ignore
          /\ created < MaxCtx
          /\ created' = created + 1
          /\ ctx' = [ctx EXCEPT ![created + 1] = NewContext]
          /\ held' = [held EXCEPT ![g] = created + 1]
          /\ prior' = [prior EXCEPT ![g] = NewContext]
          /\ UNCHANGED pool
    /\ requests' = requests + 1
    /\ pc' = [pc EXCEPT ![g] = "reset"]
    /\ stack' = [stack EXCEPT ![g] = <<>>]
    /\ trace' = [trace EXCEPT ![g] = <<>>]
    /\ calls' = [calls EXCEPT ![g] = [i \in 1..MaxChain |-> 0]]
    /\ ops' = [ops EXCEPT ![g] = 0]
    /\ resolved' = [resolved EXCEPT ![g] = -1]
    /\ outcome' = [outcome EXCEPT ![g] = "none"]
    /\ UNCHANGED <<serving, http404, crashed>>

\* c := l.pool.Get(): sync.Pool hands out one of the contexts put back, to
\* one caller, or makes one with pool.New; Get "may choose to ignore the
\* pool and treat it as empty" (ignore). The storage of lost contexts is
\* reclaimed.
PoolGet(g, ignore) ==
    /\ serving /\ ~crashed
    /\ pc[g] = "idle"
    /\ requests < MaxRequests
    /\ \/ \E c \in pool :
            /\ pool' = pool \ {c}
            /\ held' = [held EXCEPT ![g] = c]
            /\ prior' = [prior EXCEPT ![g] = ctx[c]]
            /\ ctx' = [d \in CtxIds |-> IF Lost(d) THEN NewContext ELSE ctx[d]]
            /\ UNCHANGED created
       \/ /\ pool = {} \/ ignore
          /\ created < MaxCtx
          /\ created' = created + 1
          /\ ctx' = [d \in CtxIds |-> IF Lost(d) THEN NewContext ELSE ctx[d]]
          /\ held' = [held EXCEPT ![g] = created + 1]
          /\ prior' = [prior EXCEPT ![g] = NewContext]
          /\ UNCHANGED pool
    /\ requests' = requests + 1
    /\ pc' = [pc EXCEPT ![g] = "reset"]
    /\ stack' = [stack EXCEPT ![g] = <<>>]
    /\ trace' = [trace EXCEPT ![g] = <<>>]
    /\ calls' = [calls EXCEPT ![g] = [i \in 1..MaxChain |-> 0]]
    /\ ops' = [ops EXCEPT ![g] = 0]
    /\ resolved' = [resolved EXCEPT ![g] = -1]
    /\ outcome' = [outcome EXCEPT ![g] = "none"]
    /\ UNCHANGED <<serving, http404, crashed>>

\* c.Reset(w, r): the context's reset, Ctx.RequestStart.
RequestStart(g, r) ==
    /\ ~crashed
    /\ pc[g] = "reset"
    /\ ctx' = [ctx EXCEPT ![held[g]] = RequestStartOf(@, r)]
    /\ pc' = [pc EXCEPT ![g] = "find"]
    /\ UNCHANGED <<serving, http404, pool, created, requests, crashed, held,
                   stack, trace, calls, ops, resolved, outcome, prior>>

\* l.Find(c, true)
Find(g, f) ==
    /\ ~crashed
    /\ pc[g] = "find"
    /\ ctx' = [ctx EXCEPT ![held[g]].handlers = f.handlers,
                          ![held[g]].params = f.params]
    /\ pc' = [pc EXCEPT ![g] = "next"]
    /\ resolved' = [resolved EXCEPT ![g] = Len(f.handlers.fns)]
    /\ prior' = [prior EXCEPT ![g] = NewContext]
    /\ UNCHANGED <<serving, http404, pool, created, requests, crashed, held,
                   stack, trace, calls, ops, outcome>>

\* A Next that takes the position to run from the handler calling it, not
\* from the cursor the chain shares (C8's mutant).
NextFromCaller(g) ==
    LET c  == held[g]
        by == IF stack[g] = <<>> THEN 0 ELSE stack[g][Len(stack[g])]
        ix == by
    IN  /\ ctx' = [ctx EXCEPT ![c].index = ix]
        /\ calls' = [calls EXCEPT ![g] =
                        IF by = 0 THEN @ ELSE [@ EXCEPT ![by] = @ + 1]]
        /\ IF ix + 1 \in 1..Len(ctx[c].handlers.fns)
           THEN /\ stack' = [stack EXCEPT ![g] = Append(@, ix + 1)]
                /\ trace' = [trace EXCEPT ![g] =
                      Append(@, [ev |-> "enter", h |-> ix + 1, ctx |-> Parent(c)])]
                /\ pc' = [pc EXCEPT ![g] = "running"]
                /\ UNCHANGED <<held, outcome>>
           ELSE /\ Fault(g, "index out of range")
                /\ UNCHANGED trace
        /\ UNCHANGED <<serving, http404, pool, created, requests, crashed,
                       ops, resolved, prior>>

\* Ctx.Next: c.index++, then c.handlers[c.index](c.parent); indexing past
\* the chain's end faults.
Next(g) ==
    LET c  == held[g]
        ix == ctx[c].index + 1
        by == IF stack[g] = <<>> THEN 0 ELSE stack[g][Len(stack[g])]
    IN  /\ ctx' = [ctx EXCEPT ![c].index = ix]
        /\ calls' = [calls EXCEPT ![g] =
                        IF by = 0 THEN @ ELSE [@ EXCEPT ![by] = @ + 1]]
        /\ IF ix + 1 \in 1..Len(ctx[c].handlers.fns)
           THEN /\ stack' = [stack EXCEPT ![g] = Append(@, ix + 1)]
                /\ trace' = [trace EXCEPT ![g] =
                      Append(@, [ev |-> "enter", h |-> ix + 1, ctx |-> Parent(c)])]
                /\ pc' = [pc EXCEPT ![g] = "running"]
                /\ UNCHANGED <<held, outcome>>
           ELSE /\ Fault(g, "index out of range")
                /\ UNCHANGED trace
        /\ UNCHANGED <<serving, http404, pool, created, requests, crashed,
                       ops, resolved, prior>>

\* c.Next(c) in serveHTTP
ServeNext(g) ==
    /\ ~crashed
    /\ pc[g] = "next"
    /\ Next(g)

\* c.Next() in a handler
HandlerNext(g) ==
    /\ ~crashed
    /\ pc[g] = "running"
    /\ calls[g][stack[g][Len(stack[g])]] < MaxNextCalls
    /\ Next(g)

\* A Next that, when the handler it invoked returns, goes on to run the
\* handlers left in the chain (C2's mutant).
HandlerReturnRunsRest(g) ==
    LET h  == stack[g][Len(stack[g])]
        c  == held[g]
        ix == ctx[c].index + 1
    IN  /\ ~crashed
        /\ pc[g] = "running"
        /\ IF ix + 1 \in 1..Len(ctx[c].handlers.fns)
           THEN /\ ctx' = [ctx EXCEPT ![c].index = ix]
                /\ stack' = [stack EXCEPT ![g] =
                                Append(SubSeq(@, 1, Len(@) - 1), ix + 1)]
                /\ trace' = [trace EXCEPT ![g] =
                      Append(@, [ev |-> "enter", h |-> ix + 1, ctx |-> Parent(c)])]
                /\ UNCHANGED pc
           ELSE /\ stack' = [stack EXCEPT ![g] = SubSeq(@, 1, Len(@) - 1)]
                /\ trace' = [trace EXCEPT ![g] =
                      IF calls[g][h] > 0
                      THEN Append(@, [ev |-> "exit", h |-> h, ctx |-> Parent(c)])
                      ELSE @]
                /\ pc' = [pc EXCEPT ![g] =
                             IF Len(stack[g]) = 1 THEN "put" ELSE "running"]
                /\ UNCHANGED ctx
        /\ UNCHANGED <<serving, http404, pool, created, requests, crashed,
                       held, calls, ops, resolved, outcome, prior>>

\* The handler Next invoked returns to it, and Next to its caller: the
\* handler that called it, which goes on, or serveHTTP. A handler that
\* called Next records its exit on the way out.
HandlerReturn(g) ==
    LET h == stack[g][Len(stack[g])]
    IN  /\ ~crashed
        /\ pc[g] = "running"
        /\ stack' = [stack EXCEPT ![g] = SubSeq(@, 1, Len(@) - 1)]
        /\ trace' = [trace EXCEPT ![g] =
              IF calls[g][h] > 0
              THEN Append(@, [ev |-> "exit", h |-> h, ctx |-> Parent(held[g])])
              ELSE @]
        /\ pc' = [pc EXCEPT ![g] = IF Len(stack[g]) = 1 THEN "put" ELSE "running"]
        /\ UNCHANGED <<serving, http404, pool, created, ctx, requests, crashed,
                       held, calls, ops, resolved, outcome, prior>>

\* A handler faults (panics) in its own code.
HandlerPanic(g) ==
    /\ ~crashed
    /\ pc[g] = "running"
    /\ Fault(g, "handler panic")
    /\ UNCHANGED <<serving, http404, pool, created, ctx, requests, crashed,
                   trace, calls, ops, resolved, prior>>

\* l.pool.Put(c)
PoolPut(g) ==
    /\ ~crashed
    /\ pc[g] = "put"
    /\ pool' = pool \cup {held[g]}
    /\ held' = [held EXCEPT ![g] = 0]
    /\ pc' = [pc EXCEPT ![g] = "idle"]
    /\ outcome' = [outcome EXCEPT ![g] = "released"]
    /\ UNCHANGED <<serving, http404, created, ctx, requests, crashed,
                   stack, trace, calls, ops, resolved, prior>>

\* ------------------------------------------------ what a handler may call
\* A store or form call of the running handler changes its context only.
HandlerCall(g, cx) ==
    /\ ~crashed
    /\ pc[g] = "running"
    /\ ops[g] < MaxOps
    /\ ops' = [ops EXCEPT ![g] = @ + 1]
    /\ ctx' = [ctx EXCEPT ![held[g]] = cx]
    /\ UNCHANGED <<serving, http404, pool, created, requests, crashed, pc, held,
                   stack, trace, calls, resolved, outcome, prior>>

\* A Set that stores above context.Background(), not above the context's
\* own Context (C9's mutant).
SetAboveBackground(g, key, value) ==
    HandlerCall(g, [ctx[held[g]] EXCEPT !.Context = WithValueOf(Background, key, value)])

\* Ctx.Set
Set(g, key, value) ==
    HandlerCall(g, [ctx[held[g]] EXCEPT !.Context = WithValueOf(@, key, value)])

\* Ctx.WithValue
WithValue(g, parent, key, val) ==
    HandlerCall(g, [ctx[held[g]] EXCEPT
        !.Context = WithValueOf(ParentContext(@, parent), key, val)])

\* A call of the running handler that never returns: the recursion exhausts
\* the goroutine's stack, a fatal error no recover stops, and the process
\* dies with c.Context not assigned.
Fatal(g) ==
    /\ ~crashed
    /\ pc[g] = "running"
    /\ ops[g] < MaxOps
    /\ crashed' = TRUE
    /\ UNCHANGED <<serving, http404, pool, created, ctx, requests, pc, held,
                   stack, trace, calls, ops, resolved, outcome, prior>>

\* Ctx.WithCancel: context.WithCancel asks the parent for its Done channel
\* before c.Context is assigned.
WithCancel(g, parent) ==
    /\ pc[g] = "running"
    /\ LET seen == Embedded(ctx[held[g]].Context, parent)
       IN  IF Done(seen).diverges
           THEN Fatal(g)
           ELSE HandlerCall(g, [ctx[held[g]] EXCEPT
                   !.Context = WithCancelOf(ParentContext(@, parent))])

\* Ctx.WithDeadline: context.WithDeadline asks the parent for its Deadline,
\* then for its Done channel.
WithDeadline(g, parent, sooner) ==
    /\ pc[g] = "running"
    /\ LET seen == Embedded(ctx[held[g]].Context, parent)
       IN  IF Deadline(seen).diverges \/ Done(seen).diverges
           THEN Fatal(g)
           ELSE HandlerCall(g, [ctx[held[g]] EXCEPT
                   !.Context = WithDeadlineOf(ParentContext(@, parent),
                                              Deadline(seen).ok, sooner)])

\* Ctx.WithTimeout: context.WithTimeout is WithDeadline at now + timeout.
WithTimeout(g, parent, sooner) ==
    /\ pc[g] = "running"
    /\ LET seen == Embedded(ctx[held[g]].Context, parent)
       IN  IF Deadline(seen).diverges \/ Done(seen).diverges
           THEN Fatal(g)
           ELSE HandlerCall(g, [ctx[held[g]] EXCEPT
                   !.Context = WithDeadlineOf(ParentContext(@, parent),
                                              Deadline(seen).ok, sooner)])

\* Ctx.Get called by a handler: a read, unless the lookup never ends, which
\* exhausts the stack, a fatal error no recover stops.
CallGet(g, key) ==
    /\ ~crashed
    /\ pc[g] = "running"
    /\ crashed' = Value(ctx[held[g]].Context, key).diverges
    /\ UNCHANGED <<serving, http404, pool, created, ctx, requests, pc, held,
                   stack, trace, calls, ops, resolved, outcome, prior>>

ParseFormOf(cx) ==
    LET p == HttpParseForm(cx.request)
    IN  IF cx.formParsed THEN cx
        ELSE IF p.err THEN [cx EXCEPT !.request = p.req]
        ELSE [cx EXCEPT !.request = [p.req EXCEPT !.Form = AddParams(@, cx.params)],
                        !.formParsed = TRUE]

\* Ctx.ParseForm
ParseForm(g) == HandlerCall(g, ParseFormOf(ctx[held[g]]))

ParseMultipartFormOf(cx) ==
    LET p == HttpParseMultipartForm(cx.request)
    IN  IF cx.multipartFormParsed THEN cx
        ELSE IF p.err THEN [cx EXCEPT !.request = p.req]
        ELSE [cx EXCEPT !.request = [p.req EXCEPT !.Form = AddParams(@, cx.params)],
                        !.multipartFormParsed = TRUE]

\* Ctx.ParseMultipartForm
ParseMultipartForm(g) == HandlerCall(g, ParseMultipartFormOf(ctx[held[g]]))

\* ------------------------------------------------------- specifications
\* Chain control: one goroutine serving request after request over every
\* chain Find can resolve, its handlers calling Next, returning or faulting.
\* A request's context is its own from Get to Put (SpecPool), so the other
\* goroutines change nothing it sees.
Handle(g) ==
    \/ PoolGet(g, FALSE)
    \/ \E r \in PlainRequests : RequestStart(g, r)
    \/ \E f \in FindResults : Find(g, f)
    \/ ServeNext(g)
    \/ HandlerNext(g)
    \/ HandlerReturn(g)
    \/ HandlerPanic(g)
    \/ PoolPut(g)

Step ==
    \/ \E n \in 0..MaxChain : Register404(n)
    \/ Serve
    \/ Handle(1)

Spec == Init /\ [][Step]_vars

\* The chains of two handlers, with every number of parameters.
PairFindResults ==
    {[handlers |-> Chain(2), params |-> [i \in 1..p |-> Param(i)]] : p \in 0..MostParams}

\* The store: one goroutine serving request after request over a chain of
\* two handlers, which call the store's methods.
HandleStore(g) ==
    \/ PoolGet(g, FALSE)
    \/ \E r \in PlainRequests : RequestStart(g, r)
    \/ \E f \in PairFindResults : Find(g, f)
    \/ ServeNext(g)
    \/ HandlerNext(g)
    \/ HandlerReturn(g)
    \/ HandlerPanic(g)
    \/ \E k \in Keys, v \in Values : Set(g, k, v)
    \/ \E p \in Parents, k \in Keys, v \in Values : WithValue(g, p, k, v)
    \/ \E p \in Parents : WithCancel(g, p)
    \/ \E p \in Parents, sooner \in BOOLEAN : WithDeadline(g, p, sooner)
    \/ \E p \in Parents, sooner \in BOOLEAN : WithTimeout(g, p, sooner)
    \/ \E k \in Keys : CallGet(g, k)
    \/ PoolPut(g)

StepStore ==
    \/ Serve
    \/ HandleStore(1)

SpecStore == Init /\ [][StepStore]_vars

\* The form: the same over every kind of request, the handlers calling the
\* form's methods.
HandleForm(g) ==
    \/ PoolGet(g, FALSE)
    \/ \E r \in Requests : RequestStart(g, r)
    \/ \E f \in PairFindResults : Find(g, f)
    \/ ServeNext(g)
    \/ HandlerNext(g)
    \/ HandlerReturn(g)
    \/ HandlerPanic(g)
    \/ ParseForm(g)
    \/ ParseMultipartForm(g)
    \/ PoolPut(g)

StepForm ==
    \/ Serve
    \/ HandleForm(1)

SpecForm == Init /\ [][StepForm]_vars

\* Reuse: the same, the handlers calling anything.
HandleReuse(g) ==
    \/ PoolGet(g, FALSE)
    \/ \E r \in Requests : RequestStart(g, r)
    \/ \E f \in PairFindResults : Find(g, f)
    \/ ServeNext(g)
    \/ HandlerNext(g)
    \/ HandlerReturn(g)
    \/ HandlerPanic(g)
    \/ \E k \in Keys, v \in Values : Set(g, k, v)
    \/ \E p \in Parents, k \in Keys, v \in Values : WithValue(g, p, k, v)
    \/ \E p \in Parents : WithCancel(g, p)
    \/ \E p \in Parents, sooner \in BOOLEAN : WithDeadline(g, p, sooner)
    \/ \E p \in Parents, sooner \in BOOLEAN : WithTimeout(g, p, sooner)
    \/ \E k \in Keys : CallGet(g, k)
    \/ ParseForm(g)
    \/ ParseMultipartForm(g)
    \/ PoolPut(g)

StepReuse ==
    \/ Serve
    \/ HandleReuse(1)

SpecReuse == Init /\ [][StepReuse]_vars

\* The pool: every goroutine serving at once, over the shortest chains.
HandlePool(g) ==
    \/ \E ignore \in BOOLEAN : PoolGet(g, ignore)
    \/ \E r \in PlainRequests : RequestStart(g, r)
    \/ \E f \in PoolFindResults : Find(g, f)
    \/ ServeNext(g)
    \/ HandlerNext(g)
    \/ HandlerReturn(g)
    \/ HandlerPanic(g)
    \/ PoolPut(g)

StepPool ==
    \/ Serve
    \/ \E g \in Workers : HandlePool(g)

SpecPool == Init /\ [][StepPool]_vars

\* ------------------------------------------------------------------ claims
Ended(g) == pc[g] = "idle" /\ outcome[g] # "none"

InFlight(g) == pc[g] # "idle"

Top(g) == stack[g][Len(stack[g])]

Enter(h, c) == [ev |-> "enter", h |-> h, ctx |-> c]

Exit(h, c) == [ev |-> "exit", h |-> h, ctx |-> c]

Entered(g) == SelectSeq(trace[g], LAMBDA e : e.ev = "enter")

\* enter1, ..., enterN, exitN, ..., exit1
Onion(n, c) ==
    [j \in 1..(2 * n) |-> IF j <= n THEN Enter(j, c) ELSE Exit(2 * n + 1 - j, c)]

\* enter1, ..., enterK, exitK-1, ..., exit1
CutAt(k, c) ==
    [j \in 1..(2 * k - 1) |-> IF j <= k THEN Enter(j, c) ELSE Exit(2 * k - j, c)]

\* C1: a request over a chain of N handlers (N = 1..3), each of which calls
\* Next exactly once and none of which faults in its own code, ends released
\* with the trace enter1..enterN, exitN..exit1, every event on one context.
OnionOrdering ==
    \A g \in Workers :
        (/\ Ended(g)
         /\ resolved[g] \in 1..MaxChain
         /\ \A i \in 1..resolved[g] : calls[g][i] = 1
         /\ outcome[g] # "handler panic")
        => /\ outcome[g] = "released"
           /\ \E c \in CtxIds : trace[g] = Onion(resolved[g], c)

\* C2: once handler k < N has returned without calling Next, handlers
\* 1..k-1 having called it once each, no handler after k has been entered;
\* and the request ends released with the trace enter1..enterk,
\* exit(k-1)..exit1, unless a handler faulted in its own code.
ShortCircuit ==
    \A g \in Workers : \A k \in 1..(MaxChain - 1) :
        (/\ resolved[g] > k
         /\ \E j \in 1..Len(trace[g]) : trace[g][j].ev = "enter" /\ trace[g][j].h = k
         /\ \A j \in 1..Len(stack[g]) : stack[g][j] # k
         /\ calls[g][k] = 0
         /\ \A i \in 1..(k - 1) : calls[g][i] = 1)
        => /\ \A j \in 1..Len(trace[g]) : trace[g][j].h <= k
           /\ (Ended(g) /\ outcome[g] # "handler panic")
                => /\ outcome[g] = "released"
                   /\ \E c \in CtxIds : trace[g] = CutAt(k, c)

\* C2's case: a chain of three ended released after handler 2 returned
\* without calling Next: enter1, enter2, exit1.
ShortCircuitWitness ==
    \E g \in Workers : \E c \in CtxIds :
        /\ Ended(g) /\ outcome[g] = "released"
        /\ resolved[g] = 3
        /\ calls[g][1] = 1 /\ calls[g][2] = 0
        /\ trace[g] = <<Enter(1, c), Enter(2, c), Exit(1, c)>>

\* C3: no call of Next, with no handler left after the cursor, faults.
NextPastEndIsNoOp ==
    \A g \in Workers : outcome[g] # "index out of range"

\* C4: when Find starts, the context has no parameter, no key/value entry,
\* the cursor before the first handler, no chain and both parsed flags
\* unset.
ResetBeforeFind ==
    \A g \in Workers :
        pc[g] = "find" =>
            LET cx == ctx[held[g]]
            IN  /\ cx.params = <<>>
                /\ \A k \in Keys : /\ ~Value(cx.Context, k).diverges
                                   /\ ~Get(cx.Context, k).exists
                /\ cx.index = -1
                /\ cx.handlers = NilChain
                /\ ~cx.formParsed
                /\ ~cx.multipartFormParsed

\* C4's case: Find is about to start on a context the pool returned with a
\* parameter, a stored entry, an advanced cursor, a chain and a parsed form.
ResetBeforeFindWitness ==
    \E g \in Workers :
        /\ pc[g] = "find"
        /\ prior[g].params # <<>>
        /\ \E k \in Keys : Get(prior[g].Context, k).exists
        /\ prior[g].index >= 0
        /\ ~prior[g].handlers.isNil
        /\ prior[g].formParsed

\* C5: after the reset no key is reported present, and after Set(k, v), for
\* every v, Get(k) returns v and reports it present.
GetAfterSet ==
    [][\A g \in Workers :
          /\ (\E r \in Requests : RequestStart(g, r))
                => \A k \in Keys : ~Get(ctx'[held[g]].Context, k).exists
          /\ \A k \in Keys, v \in Values :
                Set(g, k, v)
                    => Get(ctx'[held[g]].Context, k) = [value |-> v, exists |-> TRUE]
      ]_vars

\* C6, for the requests Next's own fault (C3) did not end: every request
\* that ended put its context back, a fault in a handler's own code
\* notwithstanding.
ContextReturned ==
    \A g \in Workers :
        (Ended(g) /\ outcome[g] # "index out of range") => outcome[g] = "released"

\* C7: no context is held by two requests in flight, and none is held while
\* in the pool.
ExclusiveOwnership ==
    \A g \in Workers :
        InFlight(g) =>
            /\ held[g] \in 1..created
            /\ held[g] \notin pool
            /\ \A o \in Workers \ {g} : InFlight(o) => held[o] # held[g]

\* C7's case: one request runs its handler on the second context while the
\* other is about to look its route up on a context the pool handed out
\* again.
ExclusiveOwnershipWitness ==
    \E g \in Workers, o \in Workers :
        /\ pc[g] = "running" /\ pc[o] = "find"
        /\ prior[o] # NewContext
        /\ held[g] # held[o]

\* C8 as stated: the handler a second Next call of handler i enters is
\* handler i + 1.
SecondNextReenters ==
    [][\A g \in Workers :
          (/\ HandlerNext(g)
           /\ calls[g][Top(g)] = 1
           /\ Len(stack'[g]) > Len(stack[g]))
          => stack'[g][Len(stack'[g])] = Top(g) + 1
      ]_vars

\* C8 as amended: the handlers entered in a request are handlers 1, 2, ...
\* in order, each once, whichever handler's Next call entered them and
\* however many calls it made; while handlers run, the cursor is at the last
\* one entered; and Next faults only with every handler of the chain
\* entered.
EnteredOnce ==
    \A g \in Workers :
        /\ \A j \in 1..Len(Entered(g)) : Entered(g)[j].h = j
        /\ pc[g] \in {"running", "put"} => ctx[held[g]].index + 1 = Len(Entered(g))
        /\ outcome[g] = "index out of range" => Len(Entered(g)) = resolved[g]

\* C8's case: handler 1 called Next twice and its second call entered
\* handler 3, handler 2 having returned.
EnteredOnceWitness ==
    \E g \in Workers :
        /\ pc[g] = "running"
        /\ calls[g][1] = 2
        /\ stack[g] = <<1, 3>>

\* A step of goroutine g that is a store call leaving key k alone: a Set or
\* WithValue on another key, or WithCancel, WithDeadline or WithTimeout, its
\* parent among ps.
OtherStoreCall(g, k, ps) ==
    \/ \E k2 \in Keys \ {k}, v \in Values : Set(g, k2, v)
    \/ \E p \in ps, k2 \in Keys \ {k}, v \in Values : WithValue(g, p, k2, v)
    \/ \E p \in ps : WithCancel(g, p)
    \/ \E p \in ps, sooner \in BOOLEAN :
            WithDeadline(g, p, sooner) \/ WithTimeout(g, p, sooner)

\* C9 as stated: an entry Get reports is not removed or changed by a store
\* call on another key or a With* call, whatever its parent.
StoreKept ==
    [][\A g \in Workers : \A k \in Keys :
          (OtherStoreCall(g, k, Parents) /\ Get(ctx[held[g]].Context, k).exists)
          => Get(ctx'[held[g]].Context, k) = Get(ctx[held[g]].Context, k)
      ]_vars

\* C9 as amended: Set(k, v) makes v what Get(k) returns, present unless nil,
\* and what Get(k) returns is not changed by a Set or WithValue on another
\* key nor by WithCancel, WithDeadline or WithTimeout, when the parent given
\* is the context's own embedded Context; and such a call returns, unless
\* an earlier With* call was given the Ctx itself for parent.
StoreKeptUnderCurrent ==
    [][\A g \in Workers : \A k \in Keys :
          /\ \A v \in Values :
                Set(g, k, v)
                    => Get(ctx'[held[g]].Context, k) = [value |-> v, exists |-> v # Nil]
          /\ OtherStoreCall(g, k, {"current"})
                => /\ Value(ctx'[held[g]].Context, k) = Value(ctx[held[g]].Context, k)
                   /\ crashed' => ctx[held[g]].Context.base = "self"
      ]_vars

\* C9's case: an entry stored first is still what Get returns under the
\* cancellation layer a With* call added since.
StoreKeptWitness ==
    \E g \in Workers :
        LET cx == ctx[held[g]].Context
        IN  /\ pc[g] = "running"
            /\ Len(cx.vals) = 2
            /\ cx.vals[1].kind = "value" /\ cx.vals[1].key = "k1"
            /\ cx.base = "background"
            /\ cx.vals[2].kind = "cancel"
            /\ Get(cx, "k1") = [value |-> cx.vals[1].val, exists |-> TRUE]

\* How many times a parameter is in the form.
Count(form, p) == Cardinality({i \in 1..Len(form) : form[i] = p})

\* C10: while the handlers of a request run, each matched parameter is in
\* the request form once if a parse succeeded and not at all otherwise.
ParamsAddedOnce ==
    \A g \in Workers :
        pc[g] \in {"running", "put"} =>
            LET cx == ctx[held[g]]
            IN  \A i \in 1..Len(cx.params) :
                    Count(cx.request.Form, cx.params[i]) =
                        IF cx.formParsed \/ cx.multipartFormParsed THEN 1 ELSE 0
====
